---- MODULE Spec2Model ----
(***************************************************************************)
(* Work Time Calculator (Daily): the parsing layer (TimeParser), the       *)
(* domain model (TimeInterval, DaySchedule) and the evaluation handlers of *)
(* GuiController (recalculate, copy_summary, _collect_schedule,            *)
(* _set_milestone_message, _ceil_to_next_hour).                            *)
(*                                                                         *)
(* Representation.                                                         *)
(*  - A moment (datetime, microsecond = 0) is an integer: seconds since    *)
(*    midnight of day 0.  A date is a day number; a timedelta is seconds.  *)
(*  - A time object is [hour, minute, second].                             *)
(*  - An entry text is what the parsers see of it: the ':'-separated       *)
(*    components of the stripped text and the trailing am/pm marker.  A    *)
(*    component is a numeral, the empty string, or not a numeral.  The     *)
(*    blank text is the text with no component.                            *)
(*  - A rendered text (format_hms, strftime) is the record of its fields.  *)
(*  - A raised exception is [ok |-> FALSE, err |-> message, class |->      *)
(*    its class].                                                          *)
(*  - Every reading of the clock is an input of its own: datetime.now()    *)
(*    at lines 542, 673/721 and 581, date.today() at line 582 and twice at *)
(*    line 329.  The clock moves on by at most a second while a handler    *)
(*    runs.                                                                *)
(*  - The handlers run one at a time, on the event loop; a key typed into  *)
(*    a start or an end entry changes that entry alone and schedules a     *)
(*    recalculate.                                                         *)
(*  - The time zone of the process, TZ, decides datetime.fromtimestamp;    *)
(*    day0 is the calendar date of day 0.                                  *)
(***************************************************************************)
EXTENDS Integers, Sequences, FiniteSets, TLC

VARIABLES
    rows,             \* GuiController.rows: per row [start, end] entry texts
    selected,         \* per row: var_select, the check box
    var_target,       \* the target entry text
    clock,            \* the wall clock, whole seconds (datetime.now())
    var_now,          \* the clock label
    pending,          \* a recalculate is scheduled (root.after(200, ...))
    notes,            \* per row: lbl_note
    var_status,
    var_worked,
    var_remaining,
    var_overtime,
    ratio,            \* the completion ratio shown by the progress bar
    var_milestone_1,
    var_milestone_2,
    clipboard,
    last,             \* the handler that ran last, with its clock readings
    edits,            \* number of inputs of the user so far
    call,             \* direct call of one function: its name and arguments
    ret,              \* what the direct call returned
    TZ,               \* the time zone of the process
    day0,             \* the date of day 0, in days since 1970-01-01
    dialog            \* the box of remove_selected is open (line 537)

vars == <<rows, selected, var_target, clock, var_now, pending, notes,
          var_status, var_worked, var_remaining, var_overtime, ratio,
          var_milestone_1, var_milestone_2, clipboard, last, edits, call,
          ret, TZ, day0, dialog>>

guiVars == <<rows, selected, var_target, clock, var_now, pending, notes,
             var_status, var_worked, var_remaining, var_overtime, ratio,
             var_milestone_1, var_milestone_2, clipboard, last, edits, TZ,
             day0, dialog>>

\* What no handler changes.
env == <<TZ, day0>>

\* What recalculate sets.
display == <<notes, var_status, var_worked, var_remaining, var_overtime,
             ratio, var_milestone_1, var_milestone_2>>

-----------------------------------------------------------------------------
(* Values *)

Ok(v) == [ok |-> TRUE, val |-> v]
ValueError(msg) == [ok |-> FALSE, err |-> msg, class |-> "ValueError"]
OSError(msg) == [ok |-> FALSE, err |-> msg, class |-> "OSError"]
OverflowError(msg) == [ok |-> FALSE, err |-> msg, class |-> "OverflowError"]

Num(v) == [t |-> "num", v |-> v]
Empty == [t |-> "empty"]
NonNumeric == [t |-> "bad"]

Text(parts, ampm) == [parts |-> parts, ampm |-> ampm]
Blank == Text(<<>>, "")

Time(h, m, s) == [hour |-> h, minute |-> m, second |-> s]
\* TimeInterval.end = None
None == [hour |-> -1, minute |-> -1, second |-> -1]

SecondsPerDay == 24 * 3600

Max(a, b) == IF a >= b THEN a ELSE b

-----------------------------------------------------------------------------
(* TimeParser *)

InRange(v, lo, hi) == lo <= v /\ v < hi

\* parse_time with pm adding 12 to every hour, 12 included.
parse_time_pm_adds_12(text) ==
    IF text.parts = <<>> THEN ValueError("Empty time")
    ELSE
    LET parts == text.parts
        n == Len(parts)
    IN  IF n > 3 THEN ValueError("Too many ':' in time")
        ELSE IF \/ parts[1].t # "num"
                \/ (n >= 2 /\ parts[2].t = "bad")
                \/ (n = 3 /\ parts[3].t = "bad")
        THEN ValueError("Non-numeric time component")
        ELSE
        LET hh == parts[1].v
            mm == IF n >= 2 /\ parts[2] # Empty THEN parts[2].v ELSE 0
            ss == IF n = 3 /\ parts[3] # Empty THEN parts[3].v ELSE 0
        IN  IF ~InRange(mm, 0, 60) \/ ~InRange(ss, 0, 60)
            THEN ValueError("Minutes/seconds out of range")
            ELSE IF text.ampm # ""
            THEN IF ~InRange(hh, 1, 13)
                 THEN ValueError("Hour out of range for 12-hour time")
                 ELSE IF text.ampm = "am"
                      THEN Ok(Time(IF hh = 12 THEN 0 ELSE hh, mm, ss))
                      ELSE Ok(Time(hh + 12, mm, ss))
            ELSE IF ~InRange(hh, 0, 24)
                 THEN ValueError("Hour out of range for 24-hour time")
                 ELSE Ok(Time(hh, mm, ss))

\* TimeParser.parse_time on the text as split at the colons.
parse_time(text) ==
    IF text.parts = <<>> THEN ValueError("Empty time")
    ELSE
    LET parts == text.parts
        n == Len(parts)
    IN  IF n > 3 THEN ValueError("Too many ':' in time")
        ELSE IF \/ parts[1].t # "num"
                \/ (n >= 2 /\ parts[2].t = "bad")
                \/ (n = 3 /\ parts[3].t = "bad")
        THEN ValueError("Non-numeric time component")
        ELSE
        LET hh == parts[1].v
            mm == IF n >= 2 /\ parts[2] # Empty THEN parts[2].v ELSE 0
            ss == IF n = 3 /\ parts[3] # Empty THEN parts[3].v ELSE 0
        IN  IF ~InRange(mm, 0, 60) \/ ~InRange(ss, 0, 60)
            THEN ValueError("Minutes/seconds out of range")
            ELSE IF text.ampm # ""
            THEN IF ~InRange(hh, 1, 13)
                 THEN ValueError("Hour out of range for 12-hour time")
                 ELSE IF text.ampm = "am"
                      THEN Ok(Time(IF hh = 12 THEN 0 ELSE hh, mm, ss))
                      ELSE Ok(Time(IF hh = 12 THEN 12 ELSE hh + 12, mm, ss))
            ELSE IF ~InRange(hh, 0, 24)
                 THEN ValueError("Hour out of range for 24-hour time")
                 ELSE Ok(Time(hh, mm, ss))

\* parse_duration splits the whole stripped text: a trailing am/pm marker
\* stays in the last component, which is then no numeral.
parse_duration(text) ==
    IF text.parts = <<>> THEN ValueError("Empty duration")
    ELSE
    LET n == Len(text.parts)
        parts == [i \in 1..n |->
                    IF i = n /\ text.ampm # "" THEN NonNumeric
                    ELSE text.parts[i]]
    IN  IF n > 3 THEN ValueError("Too many ':' in duration")
        ELSE IF \E i \in 1..n : parts[i].t # "num"
        THEN ValueError("Non-numeric duration component")
        ELSE
        LET h == parts[1].v
            m == IF n >= 2 THEN parts[2].v ELSE 0
            sec == IF n = 3 THEN parts[3].v ELSE 0
        IN  IF h < 0 \/ ~InRange(m, 0, 60) \/ ~InRange(sec, 0, 60)
            THEN ValueError("Invalid duration values")
            ELSE Ok(h * 3600 + m * 60 + sec)

\* The fields of f"{sign}{h:02d}:{m:02d}:{sec:02d}".
format_hms(seconds) ==
    LET s == IF seconds < 0 THEN -seconds ELSE seconds
    IN  [sign |-> IF seconds < 0 THEN "-" ELSE "",
         h |-> s \div 3600,
         m |-> (s % 3600) \div 60,
         sec |-> s % 60]

\* datetime.strftime('%H:%M:%S'): the time of day, the date dropped.
strftime(dt) ==
    LET s == dt % SecondsPerDay
    IN  [h |-> s \div 3600, m |-> (s % 3600) \div 60, sec |-> s % 60]

-----------------------------------------------------------------------------
(* Domain model *)

\* datetime.combine(on_date, t)
combine(on_date, t) ==
    on_date * SecondsPerDay + t.hour * 3600 + t.minute * 60 + t.second

\* date.today(), read when the clock is at the moment now.
today(now) == now \div SecondsPerDay

\* The order of time objects is that of (hour, minute, second).
TimeKey(t) == t.hour * 3600 + t.minute * 60 + t.second

TimeInterval(start, end) == [start |-> start, end |-> end]

is_open(it) == it.end = None

MsgInvalid == "End must be after Start within the same day (no cross-midnight)."
MsgOpen == "Only one open interval is allowed."
MsgOverlap == "Intervals overlap after sorting."

\* duration_seconds with the end compared by < : a zero-length interval passes.
duration_seconds_zero_length(it, on_date, now_dt) ==
    LET start_dt == combine(on_date, it.start)
        end_dt == IF is_open(it) THEN now_dt ELSE combine(on_date, it.end)
    IN  IF end_dt < start_dt THEN ValueError(MsgInvalid)
        ELSE Ok(end_dt - start_dt)

duration_seconds(it, on_date, now_dt) ==
    LET start_dt == combine(on_date, it.start)
        end_dt == IF is_open(it) THEN now_dt ELSE combine(on_date, it.end)
    IN  IF end_dt <= start_dt THEN ValueError(MsgInvalid)
        ELSE Ok(end_dt - start_dt)

DefaultTarget == 8 * 3600 + 30 * 60

\* DaySchedule(on_date) followed by set_intervals(intervals)
DaySchedule(on_date, intervals, target_seconds) ==
    [on_date |-> on_date, intervals |-> intervals,
     target_seconds |-> target_seconds]

\* sorted(seq, key=...) and list.sort(key=...) are stable: the indices of
\* keys in the order of the sorted list; an index goes after every index
\* already placed whose key is not greater.
RECURSIVE InsertSorted(_, _, _)
InsertSorted(i, order, keys) ==
    IF order = <<>> THEN <<i>>
    ELSE IF keys[i] < keys[Head(order)] THEN <<i>> \o order
    ELSE <<Head(order)>> \o InsertSorted(i, Tail(order), keys)

RECURSIVE SortedOrder(_, _)
SortedOrder(keys, n) ==
    IF n = 0 THEN <<>>
    ELSE InsertSorted(n, SortedOrder(keys, n - 1), keys)

sorted(seq, keys) ==
    LET order == SortedOrder(keys, Len(seq))
    IN  [i \in 1..Len(seq) |-> seq[order[i]]]

sorted_intervals(schedule) ==
    sorted(schedule.intervals,
           [i \in 1..Len(schedule.intervals) |->
               TimeKey(schedule.intervals[i].start)])

\* InvalidMsgs leaving the loop at the first interval that fails.
RECURSIVE InvalidMsgsFirstOnly(_)
InvalidMsgsFirstOnly(effective) ==
    IF effective = <<>> THEN <<>>
    ELSE IF Head(effective)[2] <= Head(effective)[1] THEN <<MsgInvalid>>
    ELSE InvalidMsgsFirstOnly(Tail(effective))

\* validate, lines 233-239: one message per interval that ends at or before
\* its start.
RECURSIVE InvalidMsgs(_)
InvalidMsgs(effective) ==
    IF effective = <<>> THEN <<>>
    ELSE (IF Head(effective)[2] <= Head(effective)[1]
          THEN <<MsgInvalid>> ELSE <<>>)
         \o InvalidMsgs(Tail(effective))

\* OverlapMsgs that looks at the first two intervals only.
OverlapMsgsFirstPair(effective, i) ==
    IF Len(effective) < 2 THEN <<>>
    ELSE IF effective[2][1] < effective[1][2] THEN <<MsgOverlap>>
    ELSE <<>>

\* OverlapMsgs with the start compared by <= : touching counts as overlap.
RECURSIVE OverlapMsgsTouching(_, _)
OverlapMsgsTouching(effective, i) ==
    IF i > Len(effective) THEN <<>>
    ELSE IF effective[i][1] <= effective[i - 1][2] THEN <<MsgOverlap>>
    ELSE OverlapMsgsTouching(effective, i + 1)

\* validate, lines 243-248: the walk over adjacent pairs, left at the first
\* overlap.
RECURSIVE OverlapMsgs(_, _)
OverlapMsgs(effective, i) ==
    IF i > Len(effective) THEN <<>>
    ELSE IF effective[i][1] < effective[i - 1][2] THEN <<MsgOverlap>>
    ELSE OverlapMsgs(effective, i + 1)

\* OpenMsgs with the count compared by >= 1.
OpenMsgsAnyOpen(ivs) ==
    LET open_count == Cardinality({i \in 1..Len(ivs) : is_open(ivs[i])})
    IN  IF open_count >= 1 THEN <<MsgOpen>> ELSE <<>>

\* validate, lines 228-230.
OpenMsgs(ivs) ==
    LET open_count == Cardinality({i \in 1..Len(ivs) : is_open(ivs[i])})
    IN  IF open_count > 1 THEN <<MsgOpen>> ELSE <<>>

validate(schedule, now_dt) ==
    LET srt == sorted_intervals(schedule)
        effective ==
            [i \in 1..Len(srt) |->
                <<combine(schedule.on_date, srt[i].start),
                  IF is_open(srt[i]) THEN now_dt
                  ELSE combine(schedule.on_date, srt[i].end)>>]
        by_start == sorted(effective,
                           [i \in 1..Len(effective) |-> effective[i][1]])
    IN  OpenMsgs(schedule.intervals)
        \o InvalidMsgs(effective)
        \o OverlapMsgs(by_start, 2)

\* total_worked_seconds: the loop from interval i on, total so far; the first
\* interval whose duration raises ends it.
RECURSIVE SumDurations(_, _, _, _)
SumDurations(schedule, now_dt, i, total) ==
    IF i > Len(schedule.intervals) THEN Ok(total)
    ELSE LET d == duration_seconds(schedule.intervals[i],
                                   schedule.on_date, now_dt)
         IN  IF ~d.ok THEN d
             ELSE SumDurations(schedule, now_dt, i + 1, total + d.val)

total_worked_seconds(schedule, now_dt) == SumDurations(schedule, now_dt, 1, 0)

remaining_seconds(schedule, now_dt) ==
    LET worked == total_worked_seconds(schedule, now_dt)
    IN  IF ~worked.ok THEN worked
        ELSE Ok(schedule.target_seconds - worked.val)

-----------------------------------------------------------------------------
(* IntervalRow and GuiController *)

NoInterval == TimeInterval(None, None)
NoError == [text |-> ""]

Row(start, end) == [start |-> start, end |-> end]

\* IntervalRow.get_interval_or_error: the (interval, error) pair.  Line 329
\* reads date.today() for the end and then again for the start: end_date and
\* start_date are what the two readings give.
get_interval_or_error(row, end_date, start_date) ==
    IF row.start = Blank /\ row.end = Blank
    THEN [it |-> NoInterval, err |-> NoError]
    ELSE IF row.start = Blank
    THEN [it |-> NoInterval, err |-> [text |-> "Start required"]]
    ELSE
    LET start_t == parse_time(row.start)
        end_t == parse_time(row.end)
    IN  IF ~start_t.ok
        THEN [it |-> NoInterval,
              err |-> [text |-> "Start invalid: {e}", e |-> start_t.err]]
        ELSE IF row.end = Blank
        THEN [it |-> TimeInterval(start_t.val, None), err |-> NoError]
        ELSE IF ~end_t.ok
        THEN [it |-> NoInterval,
              err |-> [text |-> "End invalid: {e}", e |-> end_t.err]]
        ELSE IF combine(end_date, end_t.val)
                    <= combine(start_date, start_t.val)
        THEN [it |-> NoInterval,
              err |-> [text |-> "End must be after Start (no cross-midnight)"]]
        ELSE [it |-> TimeInterval(start_t.val, end_t.val), err |-> NoError]

\* _collect_schedule, lines 589-601: the note set on a row, from what
\* get_interval_or_error returned for it.
RowNote(r, now_dt) ==
    IF r.err # NoError THEN r.err
    ELSE IF r.it = NoInterval THEN [text |-> ""]
    ELSE IF is_open(r.it)
    THEN [text |-> "Open interval -> using current time {now}",
          now |-> strftime(now_dt)]
    ELSE [text |-> "OK"]

\* _collect_schedule, line 603: the intervals appended, in row order.
RECURSIVE RowIntervals(_)
RowIntervals(results) ==
    IF results = <<>> THEN <<>>
    ELSE (IF Head(results).err = NoError /\ Head(results).it # NoInterval
          THEN <<Head(results).it>> ELSE <<>>)
         \o RowIntervals(Tail(results))

\* PreferRowErrors that adds the row-level message whatever validate returned.
PreferRowErrorsAlways(any_errors, val_msgs) ==
    IF any_errors THEN Append(val_msgs, "Fix invalid rows.") ELSE val_msgs

\* _collect_schedule, lines 608-612: row-level errors show only when validate
\* has no message.
PreferRowErrors(any_errors, val_msgs) ==
    IF any_errors /\ val_msgs = <<>> THEN <<"Fix invalid rows.">> ELSE val_msgs

\* _collect_schedule, lines 605-612, with the schedule built from the rows.
ValidateCollected(schedule, any_errors, notes_set, now_dt) ==
    [schedule |-> schedule,
     val_msgs |-> PreferRowErrors(any_errors, validate(schedule, now_dt)),
     notes |-> notes_set]

\* _collect_schedule, lines 582-603, with results[i] what
\* get_interval_or_error returned for row i and on_date what date.today()
\* gave at line 582.
CollectRows(results, now_dt, on_date) ==
    ValidateCollected(
        DaySchedule(on_date, RowIntervals(results), DefaultTarget),
        \E i \in 1..Len(results) : results[i].err # NoError,
        [i \in 1..Len(results) |-> RowNote(results[i], now_dt)],
        now_dt)

\* The dates that the readings of date.today() after the moment now give, in
\* the order of the readings: line 582, then line 329 for the end and for the
\* start of each of the n rows.  Midnight passes before any one of the
\* readings, or after them all.
DateReadings(now, n) ==
    {[on_date |-> IF 1 <= k THEN today(now) ELSE today(now + 1),
      rows |-> [i \in 1..n |->
                  [end |-> IF 2 * i <= k THEN today(now)
                           ELSE today(now + 1),
                   start |-> IF 2 * i + 1 <= k THEN today(now)
                             ELSE today(now + 1)]]] :
        k \in 0..(2 * n + 1)}

\* The date of the last of the readings.
LastDate(dates) ==
    IF dates.rows = <<>> THEN dates.on_date
    ELSE dates.rows[Len(dates.rows)].start

\* _collect_schedule, reading the clock as now_dt (line 581) and the date as
\* dates (lines 582 and 329): the schedule, the validation messages and the
\* notes it sets.
_collect_schedule(rs, now_dt, dates) ==
    CollectRows([i \in 1..Len(rs) |->
                    get_interval_or_error(rs[i], dates.rows[i].end,
                                          dates.rows[i].start)],
                now_dt, dates.on_date)

\* _ceil_to_next_hour without the test for a whole hour.
_ceil_to_next_hour_full_hour(seconds) ==
    IF seconds <= 0 THEN 0
    ELSE 3600 - (seconds % 3600)

\* _ceil_to_next_hour: the seconds from seconds to the next whole hour.
_ceil_to_next_hour(seconds) ==
    IF seconds <= 0 THEN 0
    ELSE LET rem == seconds % 3600
         IN  IF rem = 0 THEN 0 ELSE 3600 - rem

\* America/New_York: the moments, in seconds since the epoch, at which
\* daylight saving time begins (odd positions) and ends (even positions),
\* from 1918 to 2006.
NewYorkTransitions ==
    <<
       -1633280400, -1615140000, -1601830800, -1583690400, -1570381200,
       -1551636000, -1536512400, -1523210400, -1504458000, -1491760800,
       -1473008400, -1459706400, -1441558800, -1428256800, -1410109200,
       -1396807200, -1378659600, -1365357600, -1347210000, -1333908000,
       -1315155600, -1301853600, -1283706000, -1270404000, -1252256400,
       -1238954400, -1220806800, -1207504800, -1189357200, -1176055200,
       -1157302800, -1144605600, -1125853200, -1112551200, -1094403600,
       -1081101600, -1062954000, -1049652000, -1031504400, -1018202400,
       -1000054800, -986752800, -968000400, -955303200, -936550800,
       -923248800, -905101200, -891799200, -880218000, -765396000,
       -747248400, -733946400, -715798800, -702496800, -684349200,
       -671047200, -652899600, -639597600, -620845200, -608148000,
       -589395600, -576093600, -557946000, -544644000, -526496400,
       -513194400, -495046800, -481744800, -463597200, -447271200,
       -431542800, -415821600, -400093200, -384372000, -368643600,
       -352922400, -337194000, -321472800, -305744400, -289418400,
       -273690000, -257968800, -242240400, -226519200, -210790800,
       -195069600, -179341200, -163620000, -147891600, -131565600,
       -116442000, -100116000, -84387600, -68666400, -52938000,
       -37216800, -21488400, -5767200, 9961200, 25682400,
       41410800, 57736800, 73465200, 89186400, 104914800,
       120636000, 126687600, 152085600, 162370800, 183535200,
       199263600, 215589600, 230713200, 247039200, 262767600,
       278488800, 294217200, 309938400, 325666800, 341388000,
       357116400, 372837600, 388566000, 404892000, 420015600,
       436341600, 452070000, 467791200, 483519600, 499240800,
       514969200, 530690400, 544604400, 562140000, 576054000,
       594194400, 607503600, 625644000, 638953200, 657093600,
       671007600, 688543200, 702457200, 719992800, 733906800,
       752047200, 765356400, 783496800, 796806000, 814946400,
       828860400, 846396000, 860310000, 877845600, 891759600,
       909295200, 923209200, 941349600, 954658800, 972799200,
       986108400, 1004248800, 1018162800, 1035698400, 1049612400,
       1067148000, 1081062000, 1099202400, 1112511600, 1130652000,
       1143961200, 1162101600
    >>

\* The proleptic Gregorian calendar, by days counted from 1 March of year
\* 0 in eras of 400 years, which have 146097 days: the day of the era, the
\* year of the era of that day, and the day of that year (from 1 March).
DayOfEra(z) == z - (z \div 146097) * 146097
YearOfEra(doe) ==
    (doe - doe \div 1460 + doe \div 36524 - doe \div 146096) \div 365
DayOfYear(doe, yoe) == doe - (365 * yoe + yoe \div 4 - yoe \div 100)

\* The year of the day z of which doy is the day of the year and yoe the
\* year of the era: January and February belong to the next year.
CivilYear(z, yoe, doy) ==
    yoe + (z \div 146097) * 400 + (IF (5 * doy + 2) \div 153 >= 10 THEN 1 ELSE 0)

\* The year of the day z of which doe is the day of the era.
YearOfDayOfEra(z, doe) ==
    CivilYear(z, YearOfEra(doe), DayOfYear(doe, YearOfEra(doe)))

\* The year of the day, given in days since 1970-01-01.
YearOf(day) == YearOfDayOfEra(day + 719468, DayOfEra(day + 719468))

\* The first day of month m of year y, for a month from March on, in days
\* since 1970-01-01; months 13 and 14 are January and February of the next
\* year.
FirstOfMonth(y, m) ==
    (y \div 400) * 146097 + (y % 400) * 365 + (y % 400) \div 4
        - (y % 400) \div 100 + (153 * (m - 3) + 2) \div 5 - 719468

\* The first Sunday on or after the day; 1970-01-01 was a Thursday.
FirstSunday(day) == day + ((7 - ((day + 4) % 7)) % 7)

\* Daylight saving time holds at second sec of the day, in a year in which
\* it begins on the day begin at 07:00 UTC and ends on the day end at 06:00
\* UTC.
InSummer(day, sec, begin, end) ==
    /\ day > begin \/ (day = begin /\ sec >= 7 * 3600)
    /\ day < end \/ (day = end /\ sec < 6 * 3600)

\* America/New_York in the year y, from 2007 on: daylight saving time from
\* the second Sunday of March, 07:00 UTC, to the first Sunday of November,
\* 06:00 UTC.
NewYorkRuleInYear(timestamp, y) ==
    IF InSummer(timestamp \div SecondsPerDay, timestamp % SecondsPerDay,
                FirstSunday(FirstOfMonth(y, 3)) + 7,
                FirstSunday(FirstOfMonth(y, 11)))
    THEN -14400
    ELSE -18000

NewYorkRule(timestamp) ==
    NewYorkRuleInYear(timestamp, YearOf(timestamp \div SecondsPerDay))

\* The number of transitions of America/New_York before day 100 * b - 18904,
\* b being 0 for the hundred days from 1918-03-31 on and 324 for those that
\* hold the last day of 2006.
NewYorkBefore ==
    [b \in 0..325 |->
        Cardinality({i \in 1..Len(NewYorkTransitions) :
                        NewYorkTransitions[i] <
                            (100 * b - 18904) * SecondsPerDay})]

\* The number of transitions of America/New_York at or before the timestamp,
\* which is in the hundred days b: those before them and those of them that
\* are not after the timestamp.
NewYorkPast(zone, timestamp, b) ==
    zone.before[b] +
    Cardinality({i \in (zone.before[b] + 1)..zone.before[b + 1] :
                    zone.transitions[i] <= timestamp})

\* A time zone is its name and, for America/New_York, the transitions of
\* 1918 to 2006 and their numbers by hundred days.
UTC == [name |-> "UTC", transitions |-> <<>>, before |-> <<>>]
NewYork ==
    [name |-> "America/New_York", transitions |-> NewYorkTransitions,
     before |-> NewYorkBefore]
Zones == {UTC, NewYork}

\* Standard time, from 1883-11-18 17:00:00 UTC (day -31455 at 61200 s,
\* -2717650800 s) on; local mean time before it.
StandardTime(day, sec) == day > -31455 \/ (day = -31455 /\ sec >= 61200)

\* The UTC offset of America/New_York: the rule from 2007-01-01 00:00:00
\* UTC (day 13514) on, the transitions from 1918 to 2006, standard time
\* from 1883 to 1918, local mean time before.
NewYorkOffset(zone, timestamp) ==
    IF timestamp >= 13514 * SecondsPerDay THEN NewYorkRule(timestamp)
    ELSE IF timestamp >= zone.transitions[1]
    THEN IF NewYorkPast(zone, timestamp,
                        (timestamp \div SecondsPerDay + 18904) \div 100) % 2 = 1
         THEN -14400
         ELSE -18000
    ELSE IF StandardTime(timestamp \div SecondsPerDay,
                         timestamp % SecondsPerDay) THEN -18000
    ELSE -17762

\* The UTC offset of the zone at the timestamp.
utcoffset(zone, timestamp) ==
    IF zone.name = "UTC" THEN 0 ELSE NewYorkOffset(zone, timestamp)

\* The first day of year 10000, in days since 1970-01-01: datetime holds
\* the days before it.
DateOverflow == 2932897

\* 0001-01-01, the first day datetime holds, in days since 1970-01-01.
DateMin == -719162

\* What datetime.fromtimestamp raises for a timestamp whose local day is
\* day: OverflowError when the timestamp is not a 64-bit time_t, OSError
\* when the local year is not a 32-bit tm_year, which is from day
\* 365 * 2^31 + 520739217 on and before day -(365 * 2^31 + 520790352), and
\* ValueError otherwise.
FromTimestampError(timestamp, day) ==
    IF timestamp >= 2^63 \/ timestamp < -(2^63)
    THEN OverflowError("timestamp out of range for platform time_t")
    ELSE IF \/ day >= 365 * 2^31 + 520739217
            \/ day < -(365 * 2^31 + 520790352)
    THEN OSError("[Errno 75] Value too large for defined data type")
    ELSE ValueError("year {year} is out of range")

\* datetime.fromtimestamp for a timestamp whose local date and time is
\* local: it returns from 0001-01-02 (it looks at the local time a day
\* earlier as well) to the end of year 9999.
FromLocal(timestamp, local) ==
    IF /\ DateMin < local \div SecondsPerDay
       /\ local \div SecondsPerDay < DateOverflow
    THEN Ok(local)
    ELSE FromTimestampError(timestamp, local \div SecondsPerDay)

\* datetime.fromtimestamp(timestamp): the local date and time in the zone TZ,
\* in seconds since 1970-01-01 00:00:00, or what it raises.
fromtimestamp(timestamp) ==
    FromLocal(timestamp, timestamp + utcoffset(TZ, timestamp))

\* _seconds_to_timedelta: the time between the local date and time at the
\* epoch and that of seconds later, or what fromtimestamp raises.
_seconds_to_timedelta(seconds) ==
    LET epoch == fromtimestamp(0)
        later == fromtimestamp(seconds)
    IN  IF ~later.ok THEN later
        ELSE Ok((epoch.val - epoch.val) + (later.val - epoch.val))

\* 2026-03-10, in days since 1970-01-01.
StartDate == 20522

\* now_dt + _seconds_to_timedelta(seconds), lines 639, 658 and 664: the
\* moment, or what _seconds_to_timedelta raises, or the OverflowError of the
\* addition when the moment is not within the years 1 to 9999.
Projected(now_dt, seconds) ==
    LET delta == _seconds_to_timedelta(seconds)
    IN  IF ~delta.ok THEN delta
        ELSE LET day == day0 + (now_dt + delta.val) \div SecondsPerDay
             IN  IF DateMin <= day /\ day < DateOverflow
                 THEN Ok(now_dt + delta.val)
                 ELSE OverflowError("date value out of range")

\* _set_milestone_message, lines 630-633.
MilestoneInvalidTarget ==
    Ok(<<[text |-> "Target is 00:00:00 (or invalid)."], [text |-> ""]>>)

\* _set_milestone_message, lines 635-646: hit_time is computed before
\* either line is set, and what that raises is raised.
MilestoneBelowTarget(worked, target, now_dt) ==
    LET remaining == target - worked
        hit_time == Projected(now_dt, remaining)
    IN  IF ~hit_time.ok THEN hit_time
        ELSE Ok(<<[text |-> "{remaining} left to reach target {target}.",
                   remaining |-> format_hms(remaining),
                   target |-> format_hms(target)],
                  [text |-> "If you keep working, you'll reach the target at: {hit_time}",
                   hit_time |-> strftime(hit_time.val)]>>)

\* The first line of lines 653-661.
WholeHourLine(overtime) ==
    [text |-> "Overtime: {overtime}. You are already at a whole extra hour.",
     overtime |-> format_hms(overtime)]

\* _set_milestone_message, lines 653-661: the first line is set at line 654
\* before next_time is computed at line 658; when that raises, the first
\* line is set and the second is not.
MilestoneWholeHour(overtime, now_dt) ==
    LET next_time == Projected(now_dt, 3600)
    IN  IF ~next_time.ok
        THEN [ok |-> FALSE, err |-> next_time.err, class |-> next_time.class,
              line1 |-> WholeHourLine(overtime)]
        ELSE Ok(<<WholeHourLine(overtime),
                  [text |-> "Next overtime whole-hour milestone (+01:00:00) at: {next_time}",
                   next_time |-> strftime(next_time.val)]>>)

\* _set_milestone_message, lines 662-670: when is computed before either
\* line is set.
MilestoneNextHour(overtime, to_next, now_dt) ==
    LET when == Projected(now_dt, to_next)
    IN  IF ~when.ok THEN when
        ELSE Ok(<<[text |-> "Overtime: {overtime}. {to_next} more to reach extra {next_whole_overtime}.",
                   overtime |-> format_hms(overtime),
                   to_next |-> format_hms(to_next),
                   next_whole_overtime |-> format_hms(overtime + to_next)],
                  [text |-> "If you keep working, you'll reach that at: {when}",
                   when |-> strftime(when.val)]>>)

\* The first milestone line after _set_milestone_message returned or raised
\* milestone, m1 being the line on display before: a raise leaves it unless
\* line 654 has set it.
MilestoneLine1(milestone, m1) ==
    IF milestone.ok THEN milestone.val[1]
    ELSE IF "line1" \in DOMAIN milestone THEN milestone.line1
    ELSE m1

\* The second milestone line likewise: a raise leaves it.
MilestoneLine2(milestone, m2) ==
    IF milestone.ok THEN milestone.val[2] ELSE m2

\* _set_milestone_message with the whole-hour branch tested by to_next < 0.
_set_milestone_message_no_whole_hour(worked, target, now_dt) ==
    IF target <= 0 THEN MilestoneInvalidTarget
    ELSE IF worked < target
    THEN MilestoneBelowTarget(worked, target, now_dt)
    ELSE LET overtime == worked - target
             to_next == _ceil_to_next_hour(overtime)
         IN  IF to_next < 0 THEN MilestoneWholeHour(overtime, now_dt)
             ELSE MilestoneNextHour(overtime, to_next, now_dt)

\* _set_milestone_message with the target tested by target < 0.
_set_milestone_message_zero_target(worked, target, now_dt) ==
    IF target < 0 THEN MilestoneInvalidTarget
    ELSE IF worked < target
    THEN MilestoneBelowTarget(worked, target, now_dt)
    ELSE LET overtime == worked - target
             to_next == _ceil_to_next_hour(overtime)
         IN  IF to_next = 0 THEN MilestoneWholeHour(overtime, now_dt)
             ELSE MilestoneNextHour(overtime, to_next, now_dt)

\* _set_milestone_message: the two milestone lines it sets, or what it
\* raises.
_set_milestone_message(worked, target, now_dt) ==
    IF target <= 0 THEN MilestoneInvalidTarget
    ELSE IF worked < target
    THEN MilestoneBelowTarget(worked, target, now_dt)
    ELSE LET overtime == worked - target
             to_next == _ceil_to_next_hour(overtime)
         IN  IF to_next = 0 THEN MilestoneWholeHour(overtime, now_dt)
             ELSE MilestoneNextHour(overtime, to_next, now_dt)

\* dict.fromkeys(msgs): the first occurrences, in order.
RECURSIVE fromkeys(_)
fromkeys(msgs) ==
    IF msgs = <<>> THEN <<>>
    ELSE LET init == fromkeys(SubSeq(msgs, 1, Len(msgs) - 1))
             m == msgs[Len(msgs)]
         IN  IF \E i \in 1..Len(init) : init[i] = m THEN init
             ELSE Append(init, m)

\* WorkedOrZero that adds the total to the worked total on display.
WorkedOrZeroAccumulated(val_msgs, total) ==
    IF val_msgs = <<>> /\ total.ok /\ total.val > 0
    THEN var_worked.h * 3600 + var_worked.m * 60 + var_worked.sec + total.val
    ELSE 0

\* WorkedOrZero that goes on with the total whatever validate returned.
WorkedOrZeroUnchecked(val_msgs, total) ==
    IF total.ok THEN total.val ELSE 0

\* recalculate, lines 688-695 (copy_summary, 729-734): the worked total it
\* goes on with; total is what total_worked_seconds returned or raised.
WorkedOrZero(val_msgs, total) ==
    IF val_msgs = <<>> /\ total.ok THEN total.val ELSE 0

\* RecalculateDisplay with remaining and overtime not clamped at 0.
RecalculateDisplaySigned(notes_set, status, worked, target, milestone, m1, m2) ==
    [notes |-> notes_set,
     var_status |-> status,
     var_worked |-> format_hms(worked),
     var_remaining |-> format_hms(target - worked),
     var_overtime |-> format_hms(worked - target),
     ratio |-> IF target > 0
               THEN IF worked < target
                    THEN [num |-> worked, den |-> target]
                    ELSE [num |-> 1, den |-> 1]
               ELSE [num |-> 1, den |-> 1],
     var_milestone_1 |-> MilestoneLine1(milestone, m1),
     var_milestone_2 |-> MilestoneLine2(milestone, m2),
     raised |-> ~milestone.ok]

\* recalculate, lines 697-718: the totals, the progress and the milestone;
\* milestone is what _set_milestone_message set or raised, m1 and m2 the
\* milestone lines on display before; when it raises, recalculate raises.
RecalculateDisplay(notes_set, status, worked, target, milestone, m1, m2) ==
    [notes |-> notes_set,
     var_status |-> status,
     var_worked |-> format_hms(worked),
     var_remaining |-> format_hms(Max(0, target - worked)),
     var_overtime |-> format_hms(Max(0, worked - target)),
     ratio |-> IF target > 0
               THEN IF worked < target
                    THEN [num |-> worked, den |-> target]
                    ELSE [num |-> 1, den |-> 1]
               ELSE [num |-> 1, den |-> 1],
     var_milestone_1 |-> MilestoneLine1(milestone, m1),
     var_milestone_2 |-> MilestoneLine2(milestone, m2),
     raised |-> ~milestone.ok]

\* recalculate, lines 677-695: var_status is set at line 680 when the target
\* text does not parse, at line 684 or 686 always, and at line 694 when
\* total_worked_seconds raises; it keeps what was set last.
RecalculateStatus(parsed, val_msgs, total) ==
    LET sets ==
            (IF ~parsed.ok
             THEN <<[text |-> "Target invalid: {e} (using 08:30:00)",
                     e |-> parsed.err]>>
             ELSE <<>>)
            \o (IF val_msgs # <<>>
                THEN <<[text |-> "{' ; '.join(msgs)}",
                        msgs |-> fromkeys(val_msgs)]>>
                ELSE <<[text |-> "OK."]>>)
            \o (IF val_msgs = <<>> /\ ~total.ok
                THEN <<[text |-> "Error computing totals: {e}",
                        e |-> total.err]>>
                ELSE <<>>)
    IN  sets[Len(sets)]

\* recalculate, lines 676-681: the target.
TargetOrDefault(parsed) == IF parsed.ok THEN parsed.val ELSE DefaultTarget

\* recalculate, lines 683-718, with total what total_worked_seconds(now_dt)
\* returns or raises.
RecalculateTotals(c, parsed, total, now_dt, m1, m2) ==
    RecalculateDisplay(
        c.notes, RecalculateStatus(parsed, c.val_msgs, total),
        WorkedOrZero(c.val_msgs, total), TargetOrDefault(parsed),
        _set_milestone_message(WorkedOrZero(c.val_msgs, total),
                               TargetOrDefault(parsed), now_dt),
        m1, m2)

\* recalculate, lines 676-718, with c what _collect_schedule returned and
\* parsed what parse_duration returned or raised.
RecalculateTarget(c, parsed, now_dt, m1, m2) ==
    RecalculateTotals(
        c, parsed,
        total_worked_seconds(
            [c.schedule EXCEPT !.target_seconds = TargetOrDefault(parsed)],
            now_dt),
        now_dt, m1, m2)

\* recalculate, reading the clock as now_dt (line 673) and, inside
\* _collect_schedule, as now_c (line 581) and the date as dates: every
\* variable it sets, and whether it raises; m1 and m2 are the milestone
\* lines on display.
recalculate(rs, target_text, now_dt, now_c, dates, m1, m2) ==
    RecalculateTarget(_collect_schedule(rs, now_c, dates),
                      parse_duration(target_text), now_dt, m1, m2)

\* The text (open): one component, no numeral.
OpenText == Text(<<[t |-> "bad", text |-> "(open)"]>>, "")

\* copy_summary, lines 745-749: the interval lines; a blank end reads
\* (open), and a row with no start gets a line when its end is neither blank
\* nor the text (open).
RECURSIVE IntervalLines(_)
IntervalLines(rs) ==
    IF rs = <<>> THEN <<>>
    ELSE LET s == Head(rs).start
             e == IF Head(rs).end # Blank THEN Head(rs).end ELSE OpenText
         IN  (IF s # Blank \/ (e # Blank /\ e # OpenText)
              THEN <<[text |-> "  - {s} -> {e}", s |-> s, e |-> e]>>
              ELSE <<>>)
             \o IntervalLines(Tail(rs))

\* copy_summary, lines 736-766: the lines put on the clipboard; m1 and m2
\* are the milestone lines on display.
SummaryLines(rs, c, worked, target, now_dt, m1, m2) ==
    [notes |-> c.notes,
     clipboard |->
        [date |-> c.schedule.on_date,
         now |-> strftime(now_dt),
         target |-> format_hms(target),
         intervals |-> IntervalLines(rs),
         validation |-> fromkeys(c.val_msgs),
         worked |-> format_hms(worked),
         remaining |-> format_hms(Max(0, target - worked)),
         overtime |-> format_hms(Max(0, worked - target)),
         milestone |-> IF m1.text = "" THEN <<>>
                       ELSE IF m2.text = "" THEN <<m1>>
                       ELSE <<m1, m2>>]]

\* copy_summary, lines 724-734.
SummaryTotals(rs, c, target, now_dt, m1, m2) ==
    SummaryLines(
        rs, c,
        WorkedOrZero(
            c.val_msgs,
            total_worked_seconds(
                [c.schedule EXCEPT !.target_seconds = target], now_dt)),
        target, now_dt, m1, m2)

\* copy_summary, reading the clock as now_dt (line 721) and, inside
\* _collect_schedule, as now_c (line 581) and the date as dates: the notes it
\* sets and the lines it puts on the clipboard.
copy_summary(rs, target_text, now_dt, now_c, dates, m1, m2) ==
    SummaryTotals(rs, _collect_schedule(rs, now_c, dates),
                  TargetOrDefault(parse_duration(target_text)), now_dt,
                  m1, m2)

-----------------------------------------------------------------------------
(* The window: entries edited by the user, the clock, the handlers *)

MaxEdits == 2
MaxTicks == 1
ClockStart == 14 * 3600

HM(h, m) == Text(<<Num(h), Num(m)>>, "")
HMS(h, m, sec) == Text(<<Num(h), Num(m), Num(sec)>>, "")

\* What the user has typed into a row: nothing, 09:00-12:00, 13:00-(open),
\* 13:00-17:30 and 14:00-(open).
RowTexts == {Row(Blank, Blank), Row(HM(9, 0), HM(12, 0)),
             Row(HM(13, 0), Blank), Row(HM(13, 0), HM(17, 30)),
             Row(HM(14, 0), Blank)}
\* What the user types into a start entry: nothing and 09:00.
StartTexts == {Blank, HM(9, 0)}
\* What the user types into an end entry: nothing and 12:00.
EndTexts == {Blank, HM(12, 0)}
\* What the user types as the target: 08:30:00, 01:00:00, 0, and no number.
TargetTexts == {HMS(8, 30, 0), HMS(1, 0, 0), Text(<<Num(0)>>, ""),
                Text(<<NonNumeric>>, "")}
\* What the user types as the target in the window: 08:30:00, 0, no number,
\* and 15:00:00, which the work of an afternoon does not reach before
\* midnight.
WindowTargetTexts == {HMS(8, 30, 0), HMS(15, 0, 0), Text(<<Num(0)>>, ""),
                      Text(<<NonNumeric>>, "")}

NoCall == [fn |-> "none"]
NoReturn == [done |-> FALSE]

\* GuiController.__init__, lines 411-413: three blank rows.
BlankRows == [i \in 1..3 |-> Row(Blank, Blank)]

\* The date readings of a handler that runs on n rows at the moment now with
\* no midnight near.
SameDay(now, n) ==
    [on_date |-> today(now),
     rows |-> [i \in 1..n |-> [end |-> today(now), start |-> today(now)]]]

\* GuiController.__init__, line 471: what recalculate() leaves on display
\* for blank rows and target 08:30:00; the milestone lines are empty before
\* (lines 440-441).
ConstructedDisplay ==
    \E out \in {recalculate(BlankRows, HMS(8, 30, 0), ClockStart,
                            ClockStart, SameDay(ClockStart, 3),
                            [text |-> ""], [text |-> ""])} :
        /\ notes = out.notes
        /\ var_status = out.var_status
        /\ var_worked = out.var_worked
        /\ var_remaining = out.var_remaining
        /\ var_overtime = out.var_overtime
        /\ ratio = out.ratio
        /\ var_milestone_1 = out.var_milestone_1
        /\ var_milestone_2 = out.var_milestone_2
        /\ clipboard = [text |-> ""]

\* GuiController.__init__: three rows not selected, _tick_clock() at line
\* 468, which shows the clock and schedules a recalculate, and recalculate()
\* at line 471.
GuiInit ==
    /\ rows = BlankRows
    /\ selected = [i \in 1..3 |-> FALSE]
    /\ var_target = HMS(8, 30, 0)
    /\ clock = ClockStart
    /\ var_now = strftime(ClockStart)
    /\ pending = TRUE
    /\ ConstructedDisplay
    /\ last = [op |-> "recalculate", now_dt |-> ClockStart,
               now_c |-> ClockStart, dates |-> SameDay(ClockStart, 3),
               again |-> FALSE, raised |-> FALSE]
    /\ edits = 0
    /\ dialog = FALSE

\* The window, in a process whose zone is UTC, opened on 9999-12-31, the
\* last day datetime holds: a projection to a moment before midnight is
\* made as on any day, and one beyond midnight raises.
Init ==
    /\ TZ = UTC
    /\ day0 = DateOverflow - 1
    /\ GuiInit
    /\ call = NoCall
    /\ ret = NoReturn

\* The user types a key into the start entry of row i, which leaves the
\* text in it: <KeyRelease> calls _on_change, which calls _schedule_recalc,
\* whether or not the text has changed.
EditStart(i, text) ==
    /\ ~dialog
    /\ edits < MaxEdits
    /\ rows' = [rows EXCEPT ![i].start = text]
    /\ pending' = TRUE
    /\ edits' = edits + 1
    /\ last' = IF rows[i].start = text THEN last ELSE [op |-> "edit"]
    /\ UNCHANGED <<selected, var_target, clock, var_now, display, clipboard,
                   call, ret, env, dialog>>

\* The user types into the end entry of row i, likewise.
EditEnd(i, text) ==
    /\ ~dialog
    /\ edits < MaxEdits
    /\ rows' = [rows EXCEPT ![i].end = text]
    /\ pending' = TRUE
    /\ edits' = edits + 1
    /\ last' = IF rows[i].end = text THEN last ELSE [op |-> "edit"]
    /\ UNCHANGED <<selected, var_target, clock, var_now, display, clipboard,
                   call, ret, env, dialog>>

\* The user types a key into the target entry, which has no binding.
EditTarget(text) ==
    /\ ~dialog
    /\ edits < MaxEdits
    /\ var_target' = text
    /\ edits' = edits + 1
    /\ last' = IF var_target = text THEN last ELSE [op |-> "edit"]
    /\ UNCHANGED <<rows, selected, clock, var_now, pending, display,
                   clipboard, call, ret, env, dialog>>

\* The user ticks or unticks the check box of row i.
ToggleSelect(i) ==
    /\ ~dialog
    /\ edits < MaxEdits
    /\ selected' = [selected EXCEPT ![i] = ~selected[i]]
    /\ edits' = edits + 1
    /\ UNCHANGED <<rows, var_target, clock, var_now, pending, display,
                   clipboard, last, call, ret, env, dialog>>

\* add_row: a blank row, not selected, with an empty note.
AddRow ==
    /\ ~dialog
    /\ edits < MaxEdits
    /\ rows' = Append(rows, Row(Blank, Blank))
    /\ selected' = Append(selected, FALSE)
    /\ notes' = Append(notes, [text |-> ""])
    /\ edits' = edits + 1
    /\ last' = [op |-> "add_row"]
    /\ UNCHANGED <<var_target, clock, var_now, pending, var_status,
                   var_worked, var_remaining, var_overtime, ratio,
                   var_milestone_1, var_milestone_2, clipboard, call, ret,
                   env, dialog>>

\* _tick_clock, a second after the one before: it shows the clock and
\* schedules a recalculate (_schedule_recalc cancels the one scheduled); the
\* timers run while the box of remove_selected is open too.
Tick ==
    /\ clock < ClockStart + MaxTicks
    /\ clock' = clock + 1
    /\ var_now' = strftime(clock + 1)
    /\ pending' = TRUE
    /\ UNCHANGED <<rows, selected, var_target, display, clipboard, last,
                   edits, call, ret, env, dialog>>

\* The handlers that end with recalculate().
Recalculating ==
    {"recalculate", "remove_selected", "end_now_for_selected",
     "sort_by_start"}

\* The entries have not changed since the last recalculate, and it read the
\* clock as now_dt and now_c and the date as dates too.
SameAsLast(now_dt, now_c, dates) ==
    /\ last.op \in Recalculating
    /\ last.now_dt = now_dt
    /\ last.now_c = now_c
    /\ last.dates = dates

\* The clock after a handler that read it last as now_c and then the date as
\* dates: at now_c still, or at the midnight that passed since.
ClockAfter(now_c, dates) == Max(now_c, combine(LastDate(dates), Time(0, 0, 0)))

\* recalculate() as the handler op runs it on the rows rs: the clock is read
\* at line 673 as now_dt and again at line 581 as now_c; the date is read
\* after that, at line 582 and at line 329 for each row.
Evaluate(op, rs, now_dt, now_c, dates) ==
    /\ \E out \in {recalculate(rs, var_target, now_dt, now_c, dates,
                                var_milestone_1, var_milestone_2)} :
           /\ notes' = out.notes
           /\ var_status' = out.var_status
           /\ var_worked' = out.var_worked
           /\ var_remaining' = out.var_remaining
           /\ var_overtime' = out.var_overtime
           /\ ratio' = out.ratio
           /\ var_milestone_1' = out.var_milestone_1
           /\ var_milestone_2' = out.var_milestone_2
           /\ last' = [op |-> op, now_dt |-> now_dt, now_c |-> now_c,
                       dates |-> dates,
                       again |-> rs = rows /\ SameAsLast(now_dt, now_c, dates),
                       raised |-> out.raised]
    /\ clock' = ClockAfter(now_c, dates)

\* recalculate, from the button or F5; the clock may have moved on by a
\* second between its two readings.
Recalculate(d, dates) ==
    /\ ~dialog
    /\ Evaluate("recalculate", rows, clock, clock + d, dates)
    /\ UNCHANGED <<rows, selected, var_target, var_now, pending, clipboard,
                   edits, call, ret, env, dialog>>

\* recalculate, from the timer of _schedule_recalc.
AfterRecalculate(d, dates) ==
    /\ pending
    /\ pending' = FALSE
    /\ Evaluate("recalculate", rows, clock, clock + d, dates)
    /\ UNCHANGED <<rows, selected, var_target, var_now, clipboard, edits,
                   call, ret, env, dialog>>

\* remove_selected, lines 530-535: the rows not selected, in their order.
RECURSIVE remove_selected(_, _)
remove_selected(rs, sel) ==
    IF rs = <<>> THEN <<>>
    ELSE LET n == Len(rs)
             before == remove_selected(SubSeq(rs, 1, n - 1),
                                       SubSeq(sel, 1, n - 1))
         IN  IF sel[n] THEN before ELSE Append(before, rs[n])

\* remove_selected with a row selected: the rows left are those not
\* selected; recalculate() sets a note for each of them.
RemoveSelected(d, dates) ==
    /\ ~dialog
    /\ \E i \in 1..Len(rows) : selected[i]
    /\ rows' = remove_selected(rows, selected)
    /\ selected' = [i \in 1..Len(remove_selected(rows, selected)) |-> FALSE]
    /\ Evaluate("remove_selected", remove_selected(rows, selected), clock,
                clock + d, dates)
    /\ UNCHANGED <<var_target, var_now, pending, clipboard, edits, call, ret,
                   env, dialog>>

\* remove_selected with no row selected, lines 530-537: messagebox.showinfo
\* opens its box and runs the event loop until the user closes it; the
\* window takes no input meanwhile.
RemoveNothing ==
    /\ ~dialog
    /\ \A i \in 1..Len(rows) : ~selected[i]
    /\ dialog' = TRUE
    /\ UNCHANGED <<rows, selected, var_target, clock, var_now, pending,
                   display, clipboard, last, edits, call, ret, env>>

\* The user closes the box: remove_selected goes on with lines 538-539, on
\* the rows as they are.
CloseDialog(d, dates) ==
    /\ dialog
    /\ dialog' = FALSE
    /\ Evaluate("remove_selected", rows, clock, clock + d, dates)
    /\ UNCHANGED <<rows, selected, var_target, var_now, pending, clipboard,
                   edits, call, ret, env>>

\* The entry text of a rendered time: its three numerals.
EntryText(t) == HMS(t.h, t.m, t.sec)

\* end_now_for_selected, lines 542-547: now is the clock as read at line
\* 542; it becomes the end of each selected row that has a start and no end.
end_now_for_selected(rs, sel, now) ==
    [i \in 1..Len(rs) |->
        IF sel[i] /\ rs[i].start # Blank /\ rs[i].end = Blank
        THEN [rs[i] EXCEPT !.end = EntryText(strftime(now))]
        ELSE rs[i]]

\* end_now_for_selected: the clock is read at line 542 as now, then by
\* recalculate().
EndNowForSelected(now, now_dt, now_c, dates) ==
    /\ ~dialog
    /\ rows' = end_now_for_selected(rows, selected, now)
    /\ Evaluate("end_now_for_selected",
                end_now_for_selected(rows, selected, now), now_dt, now_c,
                dates)
    /\ UNCHANGED <<selected, var_target, var_now, pending, clipboard, edits,
                   call, ret, env, dialog>>

\* sort_by_start, lines 551-558: the sort key of a start text.
keyf(start) ==
    IF start = Blank THEN Time(23, 59, 59)
    ELSE LET t == parse_time(start)
         IN  IF t.ok THEN t.val ELSE Time(23, 59, 59)

\* sort_by_start, lines 561-569: the rows by their keys, rows of one key in
\* the order they had, each with its check box.
sort_by_start(rs, sel) ==
    sorted([i \in 1..Len(rs) |->
               [start |-> rs[i].start, end |-> rs[i].end, select |-> sel[i]]],
           [i \in 1..Len(rs) |-> combine(0, keyf(rs[i].start))])

\* sort_by_start: the rows are built again in the sorted order, then
\* recalculate().
SortByStart(d, dates) ==
    /\ ~dialog
    /\ \E snapshot \in {sort_by_start(rows, selected)} :
           /\ rows' = [i \in 1..Len(snapshot) |->
                          Row(snapshot[i].start, snapshot[i].end)]
           /\ selected' = [i \in 1..Len(snapshot) |-> snapshot[i].select]
           /\ Evaluate("sort_by_start",
                       [i \in 1..Len(snapshot) |->
                           Row(snapshot[i].start, snapshot[i].end)],
                       clock, clock + d, dates)
    /\ UNCHANGED <<var_target, var_now, pending, clipboard, edits, call, ret,
                   env, dialog>>

\* copy_summary: the clock is read at line 721 and again at line 581, the
\* date after that.
CopySummary(d, dates) ==
    /\ ~dialog
    /\ \E out \in {copy_summary(rows, var_target, clock, clock + d, dates,
                                 var_milestone_1, var_milestone_2)} :
           /\ notes' = out.notes
           /\ clipboard' = out.clipboard
    /\ var_status' = [text |-> "Summary copied to clipboard."]
    /\ clock' = ClockAfter(clock + d, dates)
    /\ last' = [op |-> "copy_summary", now_dt |-> clock, now_c |-> clock + d,
                dates |-> dates]
    /\ UNCHANGED <<rows, selected, var_target, var_now, pending, var_worked,
                   var_remaining, var_overtime, ratio, var_milestone_1,
                   var_milestone_2, edits, call, ret, env, dialog>>

\* The date readings of a handler whose last reading of the clock is now_c
\* and which leaves n rows, the clock staying within the bound.
Readings(now_c, n) ==
    {dates \in DateReadings(now_c, n) :
        ClockAfter(now_c, dates) <= ClockStart + MaxTicks}

Next ==
    \/ \E i \in 1..Len(rows), text \in StartTexts : EditStart(i, text)
    \/ \E i \in 1..Len(rows), text \in EndTexts : EditEnd(i, text)
    \/ \E text \in WindowTargetTexts : EditTarget(text)
    \/ \E i \in 1..Len(rows) : ToggleSelect(i)
    \/ AddRow
    \/ Tick
    \/ \E d \in {0, 1} :
           \E dates \in Readings(clock + d, Len(rows)) :
               Recalculate(d, dates)
    \/ \E d \in {0, 1} :
           \E dates \in Readings(clock + d, Len(rows)) :
               AfterRecalculate(d, dates)
    \/ \E d \in {0, 1} :
           \E dates \in Readings(clock + d,
                                 Len(remove_selected(rows, selected))) :
               RemoveSelected(d, dates)
    \/ RemoveNothing
    \/ \E d \in {0, 1} :
           \E dates \in Readings(clock + d, Len(rows)) :
               CloseDialog(d, dates)
    \/ \E a \in {0, 1} :
           \E b \in a..1 :
               \E c \in b..1 :
                   \E dates \in Readings(clock + c, Len(rows)) :
                       EndNowForSelected(clock + a, clock + b, clock + c,
                                         dates)
    \/ \E d \in {0, 1} :
           \E dates \in Readings(clock + d, Len(rows)) :
               SortByStart(d, dates)
    \/ \E d \in {0, 1} :
           \E dates \in Readings(clock + d, Len(rows)) :
               CopySummary(d, dates)

Spec == Init /\ [][Next]_vars

-----------------------------------------------------------------------------
(* The functions called directly, each on arguments drawn from bounded sets *)

MaxIntervals == 3
MaxSeconds == 7300
MaxHour == 25

\* 09:00-12:00, 12:00-13:00, 09:00-12:30, 12:00-12:00, 13:00-12:00 and the
\* open intervals from 09:00, 12:00 and 13:00.
UnitIntervals ==
    {TimeInterval(Time(9, 0, 0), Time(12, 0, 0)),
     TimeInterval(Time(12, 0, 0), Time(13, 0, 0)),
     TimeInterval(Time(9, 0, 0), Time(12, 30, 0)),
     TimeInterval(Time(12, 0, 0), Time(12, 0, 0)),
     TimeInterval(Time(13, 0, 0), Time(12, 0, 0)),
     TimeInterval(Time(9, 0, 0), None),
     TimeInterval(Time(12, 0, 0), None),
     TimeInterval(Time(13, 0, 0), None)}
UnitNows == {12 * 3600, 14 * 3600}
UnitDates == {0, 1}
UnitTargets == {-1, 0, 1, 3600, DefaultTarget, 5000 * 3600, 11667 * 3600}
MilestoneNows == {14 * 3600, 23 * 3600 + 3599}
\* Timestamps before, in and after the daylight saving time of 1970 and of
\* 1971, and in that of 2037; the second before and the first second of the
\* daylight saving time of 1918 and of 2007, a moment of the summer of 1938,
\* and the last second of 1969.
UnitTimestamps == {9961199, 9961200, 15000000, 18000000, 25682399, 25682400,
                   30000000, 41410799, 41410800, 42000000, 57736799,
                   57736800, 2130000000,
                   -1633280401, -1633280400, -1000000000, -1,
                   1173596399, 1173596400}

UnitSchedules ==
    {DaySchedule(0, ivs, DefaultTarget) :
        ivs \in UNION {[1..n -> UnitIntervals] : n \in 0..MaxIntervals}}

\* The texts given to parse_time: the empty text, a text of four components,
\* and every text of one to three components with or without am or pm, the
\* hour -1..MaxHour, empty or no number, the minute and the second -1, 0,
\* 30, 59, 60, empty or no number.
HourParts == {Num(h) : h \in (-1)..MaxHour} \cup {Empty, NonNumeric}
MinuteParts == {Num(-1), Num(0), Num(30), Num(59), Num(60), Empty, NonNumeric}
ParseTexts ==
    {Blank, Text(<<Num(9), Num(0), Num(0), Num(0)>>, "")}
    \cup {Text(<<h>>, a) : h \in HourParts, a \in {"", "am", "pm"}}
    \cup {Text(<<h, m>>, a) :
            h \in HourParts, m \in MinuteParts, a \in {"", "am", "pm"}}
    \cup {Text(<<h, m, x>>, a) :
            h \in HourParts, m \in MinuteParts, x \in MinuteParts,
            a \in {"", "am", "pm"}}

\* A call of one of the functions, on arguments drawn from the sets above.
UnitCall ==
    \/ \E it \in UnitIntervals, d \in UnitDates, n \in UnitNows :
           call = [fn |-> "duration_seconds", it |-> it, on_date |-> d,
                   now_dt |-> n]
    \/ \E f \in {"validate", "total_worked_seconds"},
          sch \in UnitSchedules, n \in UnitNows :
           call = [fn |-> f, schedule |-> sch, now_dt |-> n]
    \/ \E sch \in UnitSchedules, t \in {3600, DefaultTarget}, n \in UnitNows :
           call = [fn |-> "remaining_seconds",
                   schedule |-> [sch EXCEPT !.target_seconds = t],
                   now_dt |-> n]
    \/ \E text \in ParseTexts :
           call = [fn |-> "parse_time", text |-> text]
    \/ \E x \in 0..MaxSeconds :
           call = [fn |-> "_ceil_to_next_hour", seconds |-> x]
    \/ \E w \in 0..MaxSeconds, t \in UnitTargets, n \in MilestoneNows :
           call = [fn |-> "_set_milestone_message", worked |-> w,
                   target |-> t, now_dt |-> n]
    \/ \E x \in (0..MaxSeconds) \cup UnitTimestamps :
           call = [fn |-> "_seconds_to_timedelta", seconds |-> x]

\* The handlers called directly, the clock moving on by d seconds between the
\* two readings of it.
HandlerCalls ==
    {[fn |-> f, d |-> d] : f \in {"recalculate", "copy_summary"},
                           d \in {0, 1}}

\* The same, an end with no start, an end before its start, and the text
\* (open) as an end with no start.
TypedRowTexts == RowTexts \cup {Row(Blank, HM(12, 0)),
                                Row(HM(13, 0), HM(12, 0)),
                                Row(Blank, OpenText)}
\* The same, 00:00:00, and 11667:00:00, which ends in the daylight saving
\* time of 1971.
TypedTargetTexts == TargetTexts \cup {HMS(0, 0, 0), HMS(11667, 0, 0)}

\* A window as constructed whose entries the user has typed into since, in
\* the afternoon or in the last second of the day.
TypedInit ==
    /\ rows \in [1..3 -> TypedRowTexts]
    /\ var_target \in TypedTargetTexts
    /\ selected = [i \in 1..3 |-> FALSE]
    /\ clock \in (ClockStart..(ClockStart + MaxTicks)) \cup {SecondsPerDay - 1}
    /\ var_now = strftime(clock)
    /\ pending = TRUE
    /\ ConstructedDisplay
    /\ last = [op |-> "edit"]
    /\ edits = 0
    /\ dialog = FALSE

UnitInit ==
    /\ TZ \in Zones
    /\ day0 = StartDate
    /\ \/ GuiInit /\ UnitCall /\ ret = NoReturn
       \/ TypedInit /\ call \in HandlerCalls /\ ret = NoReturn

Returned(v) == [done |-> TRUE, val |-> v]

CallDurationSeconds ==
    /\ call.fn = "duration_seconds" /\ ~ret.done
    /\ ret' = Returned(duration_seconds(call.it, call.on_date, call.now_dt))
    /\ UNCHANGED <<guiVars, call>>

CallValidate ==
    /\ call.fn = "validate" /\ ~ret.done
    /\ ret' = Returned(validate(call.schedule, call.now_dt))
    /\ UNCHANGED <<guiVars, call>>

CallTotalWorkedSeconds ==
    /\ call.fn = "total_worked_seconds" /\ ~ret.done
    /\ ret' = Returned(total_worked_seconds(call.schedule, call.now_dt))
    /\ UNCHANGED <<guiVars, call>>

CallRemainingSeconds ==
    /\ call.fn = "remaining_seconds" /\ ~ret.done
    /\ ret' = Returned(remaining_seconds(call.schedule, call.now_dt))
    /\ UNCHANGED <<guiVars, call>>

CallParseTime ==
    /\ call.fn = "parse_time" /\ ~ret.done
    /\ ret' = Returned(parse_time(call.text))
    /\ UNCHANGED <<guiVars, call>>

CallCeilToNextHour ==
    /\ call.fn = "_ceil_to_next_hour" /\ ~ret.done
    /\ ret' = Returned(_ceil_to_next_hour(call.seconds))
    /\ UNCHANGED <<guiVars, call>>

CallSecondsToTimedelta ==
    /\ call.fn = "_seconds_to_timedelta" /\ ~ret.done
    /\ ret' = Returned(_seconds_to_timedelta(call.seconds))
    /\ UNCHANGED <<guiVars, call>>

\* A line stays as it was when _set_milestone_message raises before
\* setting it.
CallSetMilestoneMessage ==
    /\ call.fn = "_set_milestone_message" /\ ~ret.done
    /\ \E m \in {_set_milestone_message(call.worked, call.target,
                                        call.now_dt)} :
           /\ var_milestone_1' = MilestoneLine1(m, var_milestone_1)
           /\ var_milestone_2' = MilestoneLine2(m, var_milestone_2)
           /\ ret' = IF m.ok THEN Returned(<<>>) ELSE Returned(m)
    /\ UNCHANGED <<rows, selected, var_target, clock, var_now, pending,
                   notes, var_status, var_worked, var_remaining,
                   var_overtime, ratio, clipboard, last, edits, call, env,
                   dialog>>

CallRecalculate ==
    /\ call.fn = "recalculate" /\ last.op = "edit"
    /\ \E dates \in DateReadings(clock + call.d, Len(rows)) :
           Recalculate(call.d, dates)

CallCopySummary ==
    /\ call.fn = "copy_summary" /\ last.op = "edit"
    /\ \E dates \in DateReadings(clock + call.d, Len(rows)) :
           CopySummary(call.d, dates)

UnitNext ==
    \/ CallRecalculate
    \/ CallCopySummary
    \/ CallDurationSeconds
    \/ CallValidate
    \/ CallTotalWorkedSeconds
    \/ CallRemainingSeconds
    \/ CallParseTime
    \/ CallCeilToNextHour
    \/ CallSecondsToTimedelta
    \/ CallSetMilestoneMessage

SpecUnit == UnitInit /\ [][UnitNext]_vars

-----------------------------------------------------------------------------
(* Properties of TimeInterval and DaySchedule *)

\* Number of occurrences of m in msgs.
Count(msgs, m) == Cardinality({i \in 1..Len(msgs) : msgs[i] = m})

SecondsOfDay(t) == t.hour * 3600 + t.minute * 60 + t.second

EffectiveStart(it, on_date) == on_date * 86400 + SecondsOfDay(it.start)

EffectiveEnd(it, on_date, now_dt) ==
    IF it.end = None THEN now_dt ELSE on_date * 86400 + SecondsOfDay(it.end)

\* The order of the intervals after the sort by start: earlier starts first,
\* equal starts in their order in the schedule.
OrderByStart(ivs) ==
    CHOOSE p \in [1..Len(ivs) -> 1..Len(ivs)] :
        \A i, j \in 1..Len(ivs) :
            i < j =>
                \/ SecondsOfDay(ivs[p[i]].start) < SecondsOfDay(ivs[p[j]].start)
                \/ /\ SecondsOfDay(ivs[p[i]].start) = SecondsOfDay(ivs[p[j]].start)
                   /\ p[i] < p[j]

\* Some interval starts strictly before the end of the one before it.
AdjacentOverlap(sch, now_dt) ==
    LET ivs == sch.intervals
        p == OrderByStart(ivs)
    IN  \E i \in 2..Len(ivs) :
            EffectiveStart(ivs[p[i]], sch.on_date)
                < EffectiveEnd(ivs[p[i - 1]], sch.on_date, now_dt)

\* Number of intervals that end at or before their start.
FailingCount(sch, now_dt) ==
    Cardinality({i \in 1..Len(sch.intervals) :
                    EffectiveEnd(sch.intervals[i], sch.on_date, now_dt)
                        <= EffectiveStart(sch.intervals[i], sch.on_date)})

TwoOpen(sch) ==
    \E i, j \in 1..Len(sch.intervals) :
        i # j /\ sch.intervals[i].end = None /\ sch.intervals[j].end = None

Validated == call.fn = "validate" /\ ret.done

TouchingExample ==
    <<TimeInterval(Time(9, 0, 0), Time(12, 0, 0)),
      TimeInterval(Time(12, 0, 0), Time(13, 0, 0))>>

OverlappingExample ==
    <<TimeInterval(Time(9, 0, 0), Time(12, 30, 0)),
      TimeInterval(Time(12, 0, 0), Time(13, 0, 0))>>

\* C1: validate emits the overlap issue exactly when, in the order sorted by
\* start, some interval starts strictly before the end of the one before it,
\* and at most once per call; 09:00-12:00 with 12:00-13:00 (touching) gives no
\* overlap issue, 09:00-12:30 with 12:00-13:00 gives one.
C1_OverlapIssue ==
    Validated =>
        /\ Count(ret.val, MsgOverlap)
             = (IF AdjacentOverlap(call.schedule, call.now_dt) THEN 1 ELSE 0)
        /\ call.schedule.intervals = TouchingExample
             => Count(ret.val, MsgOverlap) = 0
        /\ call.schedule.intervals = OverlappingExample
             => Count(ret.val, MsgOverlap) = 1

C1_Witness ==
    /\ Validated
    /\ call.schedule.intervals = OverlappingExample
    /\ ret.val = <<MsgOverlap>>

\* C2: validate emits the multiple-open-intervals issue exactly when two
\* distinct intervals of the schedule are open, whatever their starts, their
\* order and now; with no or one open interval it is not emitted.
C2_MultipleOpenIssue ==
    Validated =>
        Count(ret.val, MsgOpen) = (IF TwoOpen(call.schedule) THEN 1 ELSE 0)

C2_Witness ==
    /\ Validated
    /\ call.schedule.intervals
         = <<TimeInterval(Time(13, 0, 0), None),
             TimeInterval(Time(9, 0, 0), None)>>
    /\ Count(ret.val, MsgOpen) = 1

\* C3: duration_seconds takes now as the end of an open interval and date+end
\* otherwise; it raises whenever that end is at or before date+start, and
\* otherwise returns the difference in seconds, which is positive.
C3_DurationSeconds ==
    (call.fn = "duration_seconds" /\ ret.done) =>
        LET es == EffectiveStart(call.it, call.on_date)
            ee == EffectiveEnd(call.it, call.on_date, call.now_dt)
        IN  IF ee <= es
            THEN ~ret.val.ok
            ELSE ret.val.ok /\ ret.val.val = ee - es /\ ret.val.val > 0

\* An open interval that starts at now.
C3_Witness ==
    /\ call.fn = "duration_seconds" /\ ret.done
    /\ call.it = TimeInterval(Time(12, 0, 0), None)
    /\ call.on_date = 0
    /\ call.now_dt = 12 * 3600
    /\ ~ret.val.ok

\* C4: validate returns one invalid-interval issue for every interval that
\* ends at or before its start, and with such intervals in the schedule it
\* still counts the open intervals and checks all intervals for overlap.
C4_EveryInvalidInterval ==
    Validated =>
        /\ Count(ret.val, MsgInvalid)
             = FailingCount(call.schedule, call.now_dt)
        /\ FailingCount(call.schedule, call.now_dt) > 0 =>
             /\ Count(ret.val, MsgOpen) > 0 <=> TwoOpen(call.schedule)
             /\ Count(ret.val, MsgOverlap) > 0
                  <=> AdjacentOverlap(call.schedule, call.now_dt)
        /\ Len(ret.val) = Count(ret.val, MsgInvalid) + Count(ret.val, MsgOpen)
                            + Count(ret.val, MsgOverlap)

\* Two open intervals that start after now, and an overlap.
C4_Witness ==
    /\ Validated
    /\ FailingCount(call.schedule, call.now_dt) = 2
    /\ ret.val = <<MsgOpen, MsgInvalid, MsgInvalid, MsgOverlap>>

-----------------------------------------------------------------------------
(* Properties of the evaluation pipeline *)

\* Seconds shown by a text HH:MM:SS.
ShownSeconds(f) == f.h * 3600 + f.m * 60 + f.sec

\* The text shows the duration x, with no sign.
ShowsDuration(f, x) == f.sign = "" /\ ShownSeconds(f) = x

\* The text shows the time of day of the moment x.
ShowsClock(f, x) == ShownSeconds(f) = x % 86400

\* The target the typed text stands for; 08:30:00 when it is not a duration.
TypedTargetSeconds ==
    CASE var_target = HMS(8, 30, 0) -> 30600
      [] var_target = HMS(1, 0, 0) -> 3600
      [] var_target = HMS(11667, 0, 0) -> 11667 * 3600
      [] var_target = HMS(0, 0, 0) -> 0
      [] var_target = Text(<<Num(0)>>, "") -> 0
      [] OTHER -> 30600

TypedSeconds(text) == text.parts[1].v * 3600 + text.parts[2].v * 60

\* Midnight of the date the handler that ran last gave the schedule.
ScheduleDay == last.dates.on_date * 86400

\* Seconds of the interval typed into row i, on the date of the schedule, an
\* open one ending at now_dt.
RowSeconds(i, now_dt) ==
    IF rows[i].start = Blank THEN 0
    ELSE (IF rows[i].end = Blank THEN now_dt
          ELSE ScheduleDay + TypedSeconds(rows[i].end))
            - (ScheduleDay + TypedSeconds(rows[i].start))

RowsSeconds(now_dt) ==
    RowSeconds(1, now_dt) + RowSeconds(2, now_dt) + RowSeconds(3, now_dt)

Recalculated == last.op = "recalculate"
Copied == last.op = "copy_summary"

VerdictShown == var_status.text = "{' ; '.join(msgs)}"

\* C5: after recalculate, when the verdict on display holds any issue the
\* worked total shown is 00:00:00, and when the status is OK it is the sum of
\* the typed intervals; after copy_summary, when the validation lines hold any
\* issue the worked line is 00:00:00, and with no issue and every interval
\* positive it is that sum.
C5_WorkedZeroOnVerdict ==
    /\ Recalculated =>
        /\ VerdictShown =>
             /\ var_status.msgs # <<>>
             /\ ShowsDuration(var_worked, 0)
        /\ var_status.text = "OK."
             => ShowsDuration(var_worked, RowsSeconds(last.now_dt))
    /\ Copied =>
        /\ clipboard.validation # <<>> => ShowsDuration(clipboard.worked, 0)
        /\ (/\ clipboard.validation = <<>>
            /\ \A i \in 1..3 : RowSeconds(i, last.now_dt) >= 0
            /\ \A i \in 1..3 : rows[i].start # Blank
                                  => RowSeconds(i, last.now_dt) > 0)
             => ShowsDuration(clipboard.worked, RowsSeconds(last.now_dt))

\* 09:00-12:00 next to the overlapping 13:00-17:30 and 13:00-(open).
C5_Witness ==
    /\ Recalculated
    /\ rows = <<Row(HM(9, 0), HM(12, 0)), Row(HM(13, 0), HM(17, 30)),
                Row(HM(13, 0), Blank)>>
    /\ VerdictShown
    /\ var_status.msgs = <<MsgOverlap>>
    /\ ShowsDuration(var_worked, 0)

\* 09:00-12:00 and 13:00-17:30 typed in, both taken into the schedule, and
\* the target 08:30:00.
AggregationExample ==
    /\ rows = <<Row(HM(9, 0), HM(12, 0)), Row(HM(13, 0), HM(17, 30)),
                Row(Blank, Blank)>>
    /\ notes = <<[text |-> "OK"], [text |-> "OK"], [text |-> ""]>>
    /\ var_target = HMS(8, 30, 0)

\* worked, remaining and overtime as shown satisfy the relations of C6 for
\* the target t.
TotalsRelated(worked, remaining, overtime, t) ==
    /\ remaining.sign = "" /\ overtime.sign = ""
    /\ ShownSeconds(remaining) = Max(0, t - ShownSeconds(worked))
    /\ ShownSeconds(overtime) = Max(0, ShownSeconds(worked) - t)
    /\ ShownSeconds(remaining) = 0 \/ ShownSeconds(overtime) = 0
    /\ ShownSeconds(remaining) - ShownSeconds(overtime)
         = t - ShownSeconds(worked)

\* Sum over the intervals of a schedule of effective end - effective start.
RECURSIVE WorkedSum(_, _, _)
WorkedSum(sch, now_dt, n) ==
    IF n = 0 THEN 0
    ELSE WorkedSum(sch, now_dt, n - 1)
            + EffectiveEnd(sch.intervals[n], sch.on_date, now_dt)
            - EffectiveStart(sch.intervals[n], sch.on_date)

RemainingReturned ==
    call.fn = "remaining_seconds" /\ ret.done /\ ret.val.ok

PipelineTotals ==
    /\ Recalculated =>
        TotalsRelated(var_worked, var_remaining, var_overtime,
                      TypedTargetSeconds)
    /\ Copied =>
        TotalsRelated(clipboard.worked, clipboard.remaining,
                      clipboard.overtime, TypedTargetSeconds)

\* C6 as stated: remaining and overtime are the clamped differences wherever
\* they are computed, DaySchedule.remaining_seconds included, and the example
\* gives worked 08:30:00, remaining 0 and overtime 0.
C6_Original ==
    /\ PipelineTotals
    /\ (Recalculated /\ AggregationExample) =>
         /\ ShowsDuration(var_worked, 30600)
         /\ ShowsDuration(var_remaining, 0)
         /\ ShowsDuration(var_overtime, 0)
    /\ RemainingReturned =>
         ret.val.val
           = Max(0, call.schedule.target_seconds
                      - WorkedSum(call.schedule, call.now_dt,
                                  Len(call.schedule.intervals)))

\* C6: what recalculate shows and copy_summary copies is remaining =
\* max(0, target - worked) and overtime = max(0, worked - target), neither
\* negative, at most one non-zero, remaining - overtime = target - worked;
\* 09:00-12:00 and 13:00-17:30 with target 08:30:00 give worked 07:30:00,
\* remaining 01:00:00 and overtime 0; DaySchedule.remaining_seconds returns
\* the signed difference target - worked, negative when worked exceeds the
\* target.
C6_Amended ==
    /\ PipelineTotals
    /\ (Recalculated /\ AggregationExample) =>
         /\ var_worked = [sign |-> "", h |-> 7, m |-> 30, sec |-> 0]
         /\ var_remaining = [sign |-> "", h |-> 1, m |-> 0, sec |-> 0]
         /\ var_overtime = [sign |-> "", h |-> 0, m |-> 0, sec |-> 0]
    /\ RemainingReturned =>
         ret.val.val
           = call.schedule.target_seconds
               - WorkedSum(call.schedule, call.now_dt,
                           Len(call.schedule.intervals))

C6_Witness ==
    /\ Recalculated
    /\ AggregationExample
    /\ var_worked = [sign |-> "", h |-> 7, m |-> 30, sec |-> 0]
    /\ var_remaining = [sign |-> "", h |-> 1, m |-> 0, sec |-> 0]

EndToEndExample ==
    /\ rows = <<Row(HM(9, 0), HM(12, 0)), Row(HM(13, 0), Blank),
                Row(Blank, Blank)>>
    /\ var_target = HMS(8, 30, 0)
    /\ last.now_dt = 14 * 3600
    /\ last.now_c = 14 * 3600

\* _set_milestone_message was called and is over.
MilestoneSet == call.fn = "_set_milestone_message" /\ ret.done

\* C7: with target > 0 and worked < target, the first milestone line gives
\* remaining = target - worked and the second the time of day of now +
\* remaining, after _set_milestone_message on any worked, target and now and
\* after recalculate, with open intervals, without, and with no interval;
\* 09:00-12:00 and 13:00-(open) at 14:00:00 with target 08:30:00 give worked
\* 04:00:00, remaining 04:30:00 and 18:30:00.
C7_BelowTarget ==
    /\ (MilestoneSet /\ call.target > 0 /\ call.worked < call.target) =>
         /\ var_milestone_1.text
              = "{remaining} left to reach target {target}."
         /\ ShowsDuration(var_milestone_1.remaining,
                          call.target - call.worked)
         /\ ShowsDuration(var_milestone_1.target, call.target)
         /\ var_milestone_2.text
              = "If you keep working, you'll reach the target at: {hit_time}"
         /\ ShowsClock(var_milestone_2.hit_time,
                       call.now_dt + (call.target - call.worked))
    /\ (Recalculated /\ call.fn = "recalculate") =>
        LET w == ShownSeconds(var_worked)
            t == TypedTargetSeconds
        IN  /\ (t > 0 /\ w < t) =>
                 /\ var_milestone_1.text
                      = "{remaining} left to reach target {target}."
                 /\ ShowsDuration(var_milestone_1.remaining, t - w)
                 /\ ShowsDuration(var_milestone_1.target, t)
                 /\ var_milestone_2.text
                      = "If you keep working, you'll reach the target at: {hit_time}"
                 /\ ShowsClock(var_milestone_2.hit_time,
                               last.now_dt + (t - w))
            /\ EndToEndExample =>
                 /\ var_worked = [sign |-> "", h |-> 4, m |-> 0, sec |-> 0]
                 /\ var_remaining = [sign |-> "", h |-> 4, m |-> 30, sec |-> 0]
                 /\ var_milestone_1.remaining
                      = [sign |-> "", h |-> 4, m |-> 30, sec |-> 0]
                 /\ var_milestone_2.hit_time
                      = [h |-> 18, m |-> 30, sec |-> 0]

\* C8: for overtime >= 0, _ceil_to_next_hour returns 0 when overtime is a
\* multiple of 3600 and 3600 - (overtime mod 3600) otherwise: a value in
\* 0..3599 that brings overtime to a multiple of 3600; 0 -> 0, 3599 -> 1,
\* 3600 -> 0, 3601 -> 3599.
C8_CeilToNextHour ==
    (call.fn = "_ceil_to_next_hour" /\ ret.done) =>
        LET x == call.seconds
        IN  /\ ret.val = (IF x % 3600 = 0 THEN 0 ELSE 3600 - (x % 3600))
            /\ ret.val \in 0..3599
            /\ (x + ret.val) % 3600 = 0
            /\ x = 0 => ret.val = 0
            /\ x = 3599 => ret.val = 1
            /\ x = 3600 => ret.val = 0
            /\ x = 3601 => ret.val = 3599

C8_Witness ==
    /\ call.fn = "_ceil_to_next_hour" /\ ret.done
    /\ call.seconds = 3600
    /\ ret.val = 0

\* C9: _set_milestone_message with target > 0 and worked >= target: when
\* overtime = worked - target is a whole number of hours (0 included) the
\* lines say so and project now + 3600 seconds; otherwise they carry the
\* overtime, the seconds to the next whole hour, the whole-hour overtime
\* reached then (greater than overtime) and the time of day of now plus
\* those seconds.
C9_AtOrAboveTarget ==
    (MilestoneSet /\ call.target > 0 /\ call.worked >= call.target) =>
        LET o == call.worked - call.target
            n == IF o % 3600 = 0 THEN 0 ELSE 3600 - (o % 3600)
        IN  IF n = 0
            THEN /\ var_milestone_1.text
                      = "Overtime: {overtime}. You are already at a whole extra hour."
                 /\ ShowsDuration(var_milestone_1.overtime, o)
                 /\ var_milestone_2.text
                      = "Next overtime whole-hour milestone (+01:00:00) at: {next_time}"
                 /\ ShowsClock(var_milestone_2.next_time, call.now_dt + 3600)
            ELSE /\ var_milestone_1.text
                      = "Overtime: {overtime}. {to_next} more to reach extra {next_whole_overtime}."
                 /\ ShowsDuration(var_milestone_1.overtime, o)
                 /\ ShowsDuration(var_milestone_1.to_next, n)
                 /\ ShowsDuration(var_milestone_1.next_whole_overtime, o + n)
                 /\ (o + n) % 3600 = 0 /\ o + n > o
                 /\ var_milestone_2.text
                      = "If you keep working, you'll reach that at: {when}"
                 /\ ShowsClock(var_milestone_2.when, call.now_dt + n)

\* One second short of a whole hour of overtime, one second before midnight.
C9_Witness ==
    /\ MilestoneSet
    /\ call.target = 3600 /\ call.worked = 7199
    /\ call.now_dt = 23 * 3600 + 3599
    /\ var_milestone_1.to_next = [sign |-> "", h |-> 0, m |-> 0, sec |-> 1]
    /\ var_milestone_2.when = [h |-> 0, m |-> 0, sec |-> 0]

TargetInvalidShown ==
    /\ var_milestone_1 = [text |-> "Target is 00:00:00 (or invalid)."]
    /\ var_milestone_2 = [text |-> ""]

IsDuration(f) == DOMAIN f = {"sign", "h", "m", "sec"}

\* C10 as stated: with target <= 0 the milestone is the target-invalid line
\* with no projection, and remaining and overtime are not durations computed
\* from worked and target.
C10_Original ==
    /\ (MilestoneSet /\ call.target <= 0) => TargetInvalidShown
    /\ (Recalculated /\ TypedTargetSeconds <= 0) =>
         /\ TargetInvalidShown
         /\ ~IsDuration(var_remaining)
         /\ ~IsDuration(var_overtime)

\* C10: with target <= 0 (typed as 0 or 00:00:00) the milestone is the
\* target-invalid line with no projection line, for every worked and now;
\* remaining and overtime are still computed: remaining is 00:00:00 and
\* overtime is the worked total.
C10_Amended ==
    /\ (MilestoneSet /\ call.target <= 0) => TargetInvalidShown
    /\ (Recalculated /\ TypedTargetSeconds <= 0) =>
         /\ TargetInvalidShown
         /\ ShowsDuration(var_remaining, 0)
         /\ ShowsDuration(var_overtime, ShownSeconds(var_worked))

C10_Witness ==
    /\ Recalculated
    /\ var_target = HMS(0, 0, 0)
    /\ rows[1] = Row(HM(9, 0), HM(12, 0))
    /\ TargetInvalidShown
    /\ ShowsDuration(var_overtime, 3 * 3600)

-----------------------------------------------------------------------------
(* Properties of the handlers: target fallback, idempotence, verdict *)

TargetUnparsed == var_target = Text(<<NonNumeric>>, "")

\* C11: after recalculate with a target text that does not parse, the totals
\* and the milestone are those of the default target 08:30:00 (30600
\* seconds), and the status still shows the target-invalid warning.
C11_TargetFallbackWarning ==
    (Recalculated /\ TargetUnparsed) =>
        /\ TotalsRelated(var_worked, var_remaining, var_overtime, 30600)
        /\ var_milestone_1.text # ""
        /\ var_status.text = "Target invalid: {e} (using 08:30:00)"

MsgFixRows == "Fix invalid rows."

\* Row i has a row-level error: an end with no start, or an end at or before
\* its start, each on the date read for it.
RowInError(i) ==
    \/ rows[i].start = Blank /\ rows[i].end # Blank
    \/ /\ rows[i].start # Blank /\ rows[i].end # Blank
       /\ last.dates.rows[i].end * 86400 + TypedSeconds(rows[i].end)
            <= last.dates.rows[i].start * 86400 + TypedSeconds(rows[i].start)

\* Row i gives an interval to the schedule.
RowInSchedule(i) == rows[i].start # Blank /\ ~RowInError(i)

RowStart(i) == ScheduleDay + TypedSeconds(rows[i].start)
RowEnd(i, now) ==
    IF rows[i].end = Blank THEN now
    ELSE ScheduleDay + TypedSeconds(rows[i].end)

\* validate has something to report on the rows of the schedule at now: two
\* open rows, a row of no positive length, or two rows that overlap.
CollectionIssue(now) ==
    \/ \E i, j \in 1..3 :
          /\ i # j /\ RowInSchedule(i) /\ RowInSchedule(j)
          /\ rows[i].end = Blank /\ rows[j].end = Blank
    \/ \E i \in 1..3 : RowInSchedule(i) /\ RowEnd(i, now) <= RowStart(i)
    \/ \E i, j \in 1..3 :
          /\ i # j /\ RowInSchedule(i) /\ RowInSchedule(j)
          /\ RowStart(i) <= RowStart(j) /\ RowStart(j) < RowEnd(i, now)

\* The messages in the status after recalculate.
VerdictMsgs == IF VerdictShown THEN var_status.msgs ELSE <<>>

Position(msgs, m) == CHOOSE i \in 1..Len(msgs) : msgs[i] = m

\* C13: after recalculate, "Fix invalid rows." is in the verdict exactly when
\* some row has a row-level error and validate has nothing to report on the
\* other rows; when validate reports anything the verdict holds its messages
\* and not the row-level one. No message is in the verdict twice, and the
\* messages stand in the order validate gave them: open count, invalid
\* interval, overlap.
C13_VerdictPrecedence ==
    Recalculated =>
        LET msgs == VerdictMsgs
            fix == Count(msgs, MsgFixRows) > 0
            collection == \E i \in 1..Len(msgs) :
                              msgs[i] \in {MsgOpen, MsgInvalid, MsgOverlap}
        IN  /\ collection <=> CollectionIssue(last.now_c)
            /\ fix <=> ((\E i \in 1..3 : RowInError(i)) /\ ~collection)
            /\ fix => msgs = <<MsgFixRows>>
            /\ \A i, j \in 1..Len(msgs) : i # j => msgs[i] # msgs[j]
            /\ \A i \in 1..Len(msgs) :
                   msgs[i] \in {MsgOpen, MsgInvalid, MsgOverlap, MsgFixRows}
            /\ (Count(msgs, MsgOpen) > 0 /\ Count(msgs, MsgInvalid) > 0)
                 => Position(msgs, MsgOpen) < Position(msgs, MsgInvalid)
            /\ (Count(msgs, MsgInvalid) > 0 /\ Count(msgs, MsgOverlap) > 0)
                 => Position(msgs, MsgInvalid) < Position(msgs, MsgOverlap)
            /\ (Count(msgs, MsgOpen) > 0 /\ Count(msgs, MsgOverlap) > 0)
                 => Position(msgs, MsgOpen) < Position(msgs, MsgOverlap)

\* A row in error next to two open rows that start at now: the verdict is
\* that of validate, the invalid-interval message in it once.
C13_Witness ==
    /\ Recalculated
    /\ rows = <<Row(Blank, HM(12, 0)), Row(HM(14, 0), Blank),
                Row(HM(14, 0), Blank)>>
    /\ last.now_c = 14 * 3600
    /\ VerdictMsgs = <<MsgOpen, MsgInvalid>>

-----------------------------------------------------------------------------
(* Properties of TimeParser.parse_time *)

Parsed == call.fn = "parse_time" /\ ret.done

\* The number typed as component i of the text; 0 when the component is
\* missing or empty.
TypedNumber(text, i) ==
    IF i <= Len(text.parts) /\ text.parts[i].t = "num"
    THEN text.parts[i].v ELSE 0

\* The text is an hour, with at most a minute and a second after it, each a
\* number or, the hour apart, empty.
WellFormed(text) ==
    /\ Len(text.parts) \in 1..3
    /\ text.parts[1].t = "num"
    /\ \A i \in 2..Len(text.parts) : text.parts[i].t \in {"num", "empty"}

\* C14: parse_time accepts a text exactly when its minute and second are in
\* 0..59 (0 when missing) and its hour is in 0..23 without am/pm, in 1..12
\* with it; it returns the hour unchanged without a marker, 12 am as 0, 12 pm
\* as 12, h am as h and h pm as h + 12, an hour in 0..23 in every case, and
\* the minute and second as typed; 25:00, 12:60, 13 am and the empty text
\* are rejected.
C14_ParseTime ==
    Parsed =>
        LET text == call.text
            h == TypedNumber(text, 1)
            m == TypedNumber(text, 2)
            x == TypedNumber(text, 3)
            accepted ==
                /\ WellFormed(text)
                /\ m \in 0..59 /\ x \in 0..59
                /\ IF text.ampm = "" THEN h \in 0..23 ELSE h \in 1..12
        IN  /\ ret.val.ok <=> accepted
            /\ ret.val.ok =>
                 /\ ret.val.val.hour
                      = (CASE text.ampm = "" -> h
                           [] text.ampm = "am" /\ h = 12 -> 0
                           [] text.ampm = "am" /\ h # 12 -> h
                           [] text.ampm = "pm" /\ h = 12 -> 12
                           [] text.ampm = "pm" /\ h # 12 -> h + 12)
                 /\ ret.val.val.hour \in 0..23
                 /\ ret.val.val.minute = m
                 /\ ret.val.val.second = x
            /\ text \in {Text(<<Num(25), Num(0)>>, ""),
                         Text(<<Num(12), Num(60)>>, ""),
                         Text(<<Num(13)>>, "am"), Blank}
                 => ~ret.val.ok

\* 12:30 pm is 12:30:00.
C14_Witness ==
    /\ Parsed
    /\ call.text = Text(<<Num(12), Num(30)>>, "pm")
    /\ ret.val.ok
    /\ ret.val.val = Time(12, 30, 0)

-----------------------------------------------------------------------------
(* Properties of the overlap walk *)

\* Interval j starts inside interval i: at or after its start, before its end.
StartsInside(sch, now_dt, i, j) ==
    /\ EffectiveStart(sch.intervals[i], sch.on_date)
         <= EffectiveStart(sch.intervals[j], sch.on_date)
    /\ EffectiveStart(sch.intervals[j], sch.on_date)
         < EffectiveEnd(sch.intervals[i], sch.on_date, now_dt)

PairOverlap(sch, now_dt) ==
    \E i, j \in 1..Len(sch.intervals) :
        i # j /\ StartsInside(sch, now_dt, i, j)

\* If validate returned nothing, every interval has positive length and no
\* interval starts inside another.
DisjointWhenValid ==
    (Validated /\ ret.val = <<>>) =>
        /\ FailingCount(call.schedule, call.now_dt) = 0
        /\ ~PairOverlap(call.schedule, call.now_dt)

\* C15 as stated: whenever some interval starts inside another, neighbours
\* in the sorted order or not, validate emits the overlap issue.
C15_Original ==
    /\ Validated =>
         (PairOverlap(call.schedule, call.now_dt)
            => Count(ret.val, MsgOverlap) > 0)
    /\ DisjointWhenValid

\* C15: whenever some interval starts inside another, neighbours in the
\* sorted order or not, validate returns an issue: the overlap issue when
\* every interval has positive length, or when the interval started inside
\* comes first in the sorted order (earlier start, or the same start and
\* earlier in the schedule), and otherwise at least the invalid-interval
\* issue; and if validate returns no issue at all, the intervals are pairwise
\* disjoint (touching allowed) and each has positive length.
C15_Amended ==
    /\ Validated =>
         LET sch == call.schedule
             now == call.now_dt
         IN  /\ PairOverlap(sch, now)
                  => Count(ret.val, MsgOverlap) + Count(ret.val, MsgInvalid) > 0
             /\ (PairOverlap(sch, now) /\ FailingCount(sch, now) = 0)
                  => Count(ret.val, MsgOverlap) > 0
             /\ \A i, j \in 1..Len(sch.intervals) :
                    (/\ i # j
                     /\ StartsInside(sch, now, i, j)
                     /\ \/ EffectiveStart(sch.intervals[i], sch.on_date)
                             < EffectiveStart(sch.intervals[j], sch.on_date)
                        \/ i < j)
                      => Count(ret.val, MsgOverlap) > 0
    /\ DisjointWhenValid

\* 12:00-13:00 starts inside 09:00-12:30, and 09:00-12:00 stands between
\* them in the sorted order.
C15_Witness ==
    /\ Validated
    /\ call.schedule.intervals
         = <<TimeInterval(Time(12, 0, 0), Time(13, 0, 0)),
             TimeInterval(Time(9, 0, 0), Time(12, 30, 0)),
             TimeInterval(Time(9, 0, 0), Time(12, 0, 0))>>
    /\ ret.val = <<MsgOverlap>>

-----------------------------------------------------------------------------
(* Properties of the two readings of the clock *)

\* Every row of the schedule has positive length at now.
RowsPositive(now) ==
    \A i \in 1..3 : rows[i].start # Blank => RowSeconds(i, now) > 0

\* C16: after recalculate with an empty verdict the status is not "Error
\* computing totals", every interval has positive length at the moment the
\* total was taken and worked is the sum of the lengths; after copy_summary
\* with no validation line the same holds of the worked line; also when the
\* clock moved on by a second between the two readings.
C16_ValidationAggregationAgree ==
    /\ (Recalculated /\ ~VerdictShown) =>
         /\ var_status.text = "OK."
         /\ RowsPositive(last.now_dt)
         /\ ShowsDuration(var_worked, RowsSeconds(last.now_dt))
    /\ (Copied /\ clipboard.validation = <<>>) =>
         /\ RowsPositive(last.now_dt)
         /\ ShowsDuration(clipboard.worked, RowsSeconds(last.now_dt))

====
